---------------------------- MODULE Spec2Model ----------------------------
(***************************************************************************)
(* A model of moon-dev-ai-agents: the whale agent (src/agents/             *)
(* whale_agent.py) and the backtest strategies' next() callbacks.          *)
(*                                                                         *)
(* Time is counted in minutes.  Open-interest values are integers drawn    *)
(* from a set on which every percentage (new - prev) / prev * 100 is an    *)
(* integer, so the integer quotient below introduces no rounding.          *)
(***************************************************************************)
EXTENDS Integers, Sequences, FiniteSets, TLC

VARIABLES
    now,            \* datetime.now(), in minutes
    oi_history,     \* WhaleAgent.oi_history: the rows of the DataFrame, in order
    deepseek_client,\* WhaleAgent.deepseek_client is not None
    ai_model,       \* WhaleAgent.ai_model
    pc,             \* position of the __main__ loop
    stop_cause,     \* the exception that ended the loop
    cycles,         \* monitoring cycles run so far
    cycle,          \* what the last run_monitoring_cycle did
    cleanup,        \* the last load_history / _save_oi_data call
    a_content,      \* _analyze_opportunity: the content of the model's response
    a_fault,        \* _analyze_opportunity: a call inside its try block raises
    a_result,       \* _analyze_opportunity: what it returned
    d_col,          \* _detect_whale_activity: the btc_change_pct column
    d_change,       \* _detect_whale_activity: current_change
    d_fault,        \* _detect_whale_activity: its try block raises
    d_result,       \* _detect_whale_activity: what it returned
    strategy,       \* the Strategy class the Backtest runs
    position,       \* Strategy.position: side, size, and whether a stop-loss or
                    \* take-profit order is attached to its trade
    orders,         \* the orders the last next() call left with the broker
    bt_phase,       \* "broker": the next bar is processed; "strategy": next() runs
    last_call,      \* what the last next() call found and did
    held,           \* consecutive next() calls that found a position open
    partialed,      \* SynergisticOscillator.partialed
    pos_bars,       \* SynergisticOscillator.pos_bars
    trade_bars,     \* KalmanResonance.trade_bars
    warm,           \* KalmanResonance: the indicators are past their warm-up
    data_len,       \* QuadrupleHarmonic: len(self.data) at the last next() call
    entry_bar,      \* QuadrupleHarmonic.entry_bar: <<>> is None, <<n>> is n
    order_bar,      \* QuadrupleHarmonic: len(self.data) at the call that placed the
                    \* order of the open position, 0 when no position is open
    last_bar,       \* FractalCascade: the indicators of the bar of the last call
    current_sl,     \* FractalCascade.current_sl: "None" or "set" to a price
    s_point,        \* _save_oi_data: the history before the call and its arguments
    f_series,       \* the fractal functions: the input array
    f_result        \* the fractal functions: the arrays they returned

agentVars == <<now, oi_history, deepseek_client, ai_model, pc, stop_cause,
               cycles, cycle, cleanup>>
analysisVars == <<a_content, a_fault, a_result>>
detectVars == <<d_col, d_change, d_fault, d_result>>

btVars == <<strategy, position, orders, bt_phase, last_call, held, partialed,
            pos_bars, trade_bars, warm, data_len, entry_bar, order_bar, last_bar,
            current_sl>>
saveVars == <<s_point>>
fractalVars == <<f_series, f_result>>

vars == <<agentVars, analysisVars, detectVars, btVars, saveVars, fractalVars>>

-----------------------------------------------------------------------------
(* Bounds *)

T0 == 2000
MaxCycles == 3
NStored == 9

(* Program constants *)

WindowMinutes == 1440
CHECK_INTERVAL_MINUTES == 5
ErrorSleepMinutes == 1
RollingWindow == 10
MinHistory == 10
MinPoints == 2
ThresholdNum == 131
ThresholdDen == 100
DefaultConfidence == 50
LookbackMinutes == 15

-----------------------------------------------------------------------------
(* Arithmetic helpers *)

Abs(x) == IF x < 0 THEN -x ELSE x

RECURSIVE SumSeq(_)
SumSeq(s) == IF s = <<>> THEN 0 ELSE Head(s) + SumSeq(Tail(s))

Last(s) == s[Len(s)]

PctOfNew(new, prev) == ((new - prev) * 100) \div new

\* ((new - prev) / prev) * 100
PctChange(new, prev) == ((new - prev) * 100) \div prev

-----------------------------------------------------------------------------
(* The history DataFrame *)

Row(ts, btc, eth, bpct, epct, tpct) ==
    [timestamp |-> ts, btc_oi |-> btc, eth_oi |-> eth, total_oi |-> btc + eth,
     btc_change_pct |-> bpct, eth_change_pct |-> epct, total_change_pct |-> tpct]

NotOlderThan(hist, cutoff_time) ==
    SelectSeq(hist, LAMBDA r : r.timestamp >= cutoff_time)

\* df[df['timestamp'] > cutoff_time]
NewerThan(hist, cutoff_time) ==
    SelectSeq(hist, LAMBDA r : r.timestamp > cutoff_time)

\* df[df['timestamp'] <= target_time]
AtOrBefore(hist, target_time) ==
    SelectSeq(hist, LAMBDA r : r.timestamp <= target_time)

\* The history files the agent may find at start-up.
StoredRow(i) == Row(T0 - CHECK_INTERVAL_MINUTES * (NStored + 1 - i), 100, 100, 0, 0, 0)

HistoryFiles ==
    { [kind |-> "missing", rows |-> <<>>],
      [kind |-> "old_format", rows |-> <<>>],
      [kind |-> "unreadable", rows |-> <<>>],
      [kind |-> "ok", rows |-> <<Row(T0 - WindowMinutes, 200, 200, 0, 0, 0),
                                 Row(T0 - CHECK_INTERVAL_MINUTES, 100, 100, -50, -50, -50)>>],
      [kind |-> "ok", rows |-> [i \in 1..NStored |-> StoredRow(i)]] }

load_history(file, clock) ==
    LET loaded == IF file.kind = "ok" THEN file.rows ELSE <<>>
    IN  IF file.kind = "unreadable" THEN <<>>
        ELSE IF loaded # <<>> THEN NewerThan(loaded, clock - WindowMinutes)
        ELSE loaded

\* The in-memory history after _save_oi_data.  The only step that fails on its
\* own is the final to_csv write (fault = "to_csv"), which comes after the
\* clean-up and is swallowed by the method's except clause.
save_oi_data(hist, clock, timestamp, btc_oi, eth_oi, fault) ==
    LET prev == Last(hist)
        new_row ==
            IF hist # <<>>
            THEN Row(timestamp, btc_oi, eth_oi,
                     PctChange(btc_oi, prev.btc_oi),
                     PctChange(eth_oi, prev.eth_oi),
                     PctChange(btc_oi + eth_oi, prev.total_oi))
            ELSE Row(timestamp, btc_oi, eth_oi, 0, 0, 0)
        appended == Append(hist, new_row)
    IN  NewerThan(appended, clock - WindowMinutes)


-----------------------------------------------------------------------------
(* _detect_whale_activity *)

\* self.oi_history['btc_change_pct']
BtcChangeColumn(hist) == [i \in 1..Len(hist) |-> hist[i].btc_change_pct]

\* series.abs()
AbsSeries(col) == [i \in 1..Len(col) |-> Abs(col[i])]

\* series.rolling(window=10).mean().dropna(): one entry per full window.  Each
\* entry is the window's sum; the mean is that sum over RollingWindow.
RollingSums(a) ==
    [i \in 1..(Len(a) - RollingWindow + 1) |->
        SumSeq(SubSeq(a, i, i + RollingWindow - 1))]

\* abs(current_change) > historical_changes.mean() * WHALE_THRESHOLD_MULTIPLIER,
\* in exact arithmetic: mean = SumSeq(sums) / (RollingWindow * Len(sums)) and
\* the multiplier is ThresholdNum / ThresholdDen.
AtOrAboveThreshold(current_change, sums) ==
    Abs(current_change) * RollingWindow * Len(sums) * ThresholdDen
        >= SumSeq(sums) * ThresholdNum

AboveThreshold(current_change, sums) ==
    Abs(current_change) * RollingWindow * Len(sums) * ThresholdDen
        > SumSeq(sums) * ThresholdNum

EnoughHistory(col) == ~(Len(col) < MinHistory)

detect_whale_activity(col, current_change, fault) ==
    IF fault THEN FALSE
    ELSE IF ~EnoughHistory(col) THEN FALSE
    ELSE LET historical_changes == RollingSums(AbsSeries(col))
         IN  IF historical_changes = <<>> THEN FALSE
             ELSE AboveThreshold(current_change, historical_changes)

-----------------------------------------------------------------------------
(* Strings: a string is a sequence of one-character strings *)

LowerLetters == <<"a","b","c","d","e","f","g","h","i","j","k","l","m",
                  "n","o","p","q","r","s","t","u","v","w","x","y","z">>
UpperLetters == <<"A","B","C","D","E","F","G","H","I","J","K","L","M",
                  "N","O","P","Q","R","S","T","U","V","W","X","Y","Z">>
Digits == <<"0","1","2","3","4","5","6","7","8","9">>

IndexIn(seq, c) == CHOOSE i \in 1..Len(seq) : seq[i] = c
Occurs(seq, c) == \E i \in 1..Len(seq) : seq[i] = c

\* str.upper(), str.lower()
UpperChar(c) == IF Occurs(LowerLetters, c) THEN UpperLetters[IndexIn(LowerLetters, c)] ELSE c
LowerChar(c) == IF Occurs(UpperLetters, c) THEN LowerLetters[IndexIn(UpperLetters, c)] ELSE c
UpperStr(s) == [i \in 1..Len(s) |-> UpperChar(s[i])]
LowerStr(s) == [i \in 1..Len(s) |-> LowerChar(s[i])]

IsSpace(c) == c \in {" ", "\t", "\r"}
IsDigit(c) == Occurs(Digits, c)
DigitVal(c) == IndexIn(Digits, c) - 1

RECURSIVE LStrip(_)
LStrip(s) == IF s # <<>> /\ IsSpace(Head(s)) THEN LStrip(Tail(s)) ELSE s

RECURSIVE RStrip(_)
RStrip(s) == IF s # <<>> /\ IsSpace(Last(s)) THEN RStrip(SubSeq(s, 1, Len(s) - 1)) ELSE s

\* str.strip()
Strip(s) == RStrip(LStrip(s))

\* sub in s
Contains(s, sub) ==
    \E i \in 1..(Len(s) - Len(sub) + 1) : SubSeq(s, i, i + Len(sub) - 1) = sub

\* int(digits)
RECURSIVE IntOf(_)
IntOf(ds) == IF ds = <<>> THEN 0
             ELSE 10 * IntOf(SubSeq(ds, 1, Len(ds) - 1)) + DigitVal(Last(ds))

\* The end of the run of digits that starts at i.
RECURSIVE RunEnd(_, _)
RunEnd(s, i) == IF i < Len(s) /\ IsDigit(s[i + 1]) THEN RunEnd(s, i + 1) ELSE i

\* The start positions at which r'(\d+)%' matches.
PctStarts(s) ==
    { i \in 1..Len(s) :
        /\ IsDigit(s[i])
        /\ RunEnd(s, i) < Len(s)
        /\ s[RunEnd(s, i) + 1] = "%" }

Min(S) == CHOOSE x \in S : \A y \in S : x <= y

\* int(re.findall(r'(\d+)%', line)[0])
FirstPct(s) == LET i == Min(PctStarts(s)) IN IntOf(SubSeq(s, i, RunEnd(s, i)))

-----------------------------------------------------------------------------
(* _analyze_opportunity *)

None == [kind |-> "None"]

Actions == { <<"B","U","Y">>, <<"S","E","L","L">>, <<"N","O","T","H","I","N","G">> }

ConfidenceWord == <<"c","o","n","f","i","d","e","n","c","e">>

IsDeepSeek(model) == model = "deepseek-chat"

IsBlank(line) == Strip(line) = <<>>

\* response.choices[0].message.content.strip(), the text being the sequence of
\* its lines: blank lines at both ends go, the first line loses its leading and
\* the last its trailing whitespace.
RECURSIVE DropBlankHead(_)
DropBlankHead(ls) == IF ls # <<>> /\ IsBlank(Head(ls)) THEN DropBlankHead(Tail(ls)) ELSE ls

RECURSIVE DropBlankTail(_)
DropBlankTail(ls) ==
    IF ls # <<>> /\ IsBlank(Last(ls)) THEN DropBlankTail(SubSeq(ls, 1, Len(ls) - 1)) ELSE ls

StripText(ls) ==
    LET kept == DropBlankTail(DropBlankHead(ls))
    IN  IF kept = <<>> THEN << <<>> >>
        ELSE [i \in 1..Len(kept) |->
                LET a == IF i = 1 THEN LStrip(kept[i]) ELSE kept[i]
                IN  IF i = Len(kept) THEN RStrip(a) ELSE a]

\* not response_text
IsEmptyText(ls) == ls = << <<>> >>

\* [line.strip() for line in response_text.split('\n') if line.strip()]
RECURSIVE StrippedLines(_)
StrippedLines(ls) ==
    IF ls = <<>> THEN <<>>
    ELSE IF IsBlank(Head(ls)) THEN StrippedLines(Tail(ls))
    ELSE <<Strip(Head(ls))>> \o StrippedLines(Tail(ls))

AnyAction(action) == TRUE

\* lines[0].strip().upper() in ['BUY', 'SELL', 'NOTHING']
ValidAction(action) == action \in Actions

\* 'confidence' in line.lower() and re.findall(r'(\d+)%', line)
CarriesConfidence(line) ==
    Contains(LowerStr(line), ConfidenceWord) /\ PctStarts(line) # {}

\* The loop over lines: every line that carries a confidence overwrites it.
RECURSIVE ExtractConfidence(_, _)
ExtractConfidence(ls, confidence) ==
    IF ls = <<>> THEN confidence
    ELSE ExtractConfidence(Tail(ls),
            IF CarriesConfidence(Head(ls)) THEN FirstPct(Head(ls)) ELSE confidence)

\* The text the model call hands over, or the exception it dies of.
\* content.kind: "text" (a string), "none" (content is None), "empty_list"
\* (Claude's content list is empty).
ResponseText(model, content) ==
    IF IsDeepSeek(model)
    THEN IF content.kind = "text" THEN [raised |-> FALSE, text |-> StripText(content.lines)]
         ELSE [raised |-> TRUE, text |-> << <<>> >>]
    ELSE IF content.kind = "text" THEN [raised |-> FALSE, text |-> content.lines]
         ELSE [raised |-> FALSE, text |-> << <<>> >>]

ParseResponse(response_text) ==
    IF IsEmptyText(response_text) THEN None
    ELSE LET lines == StrippedLines(response_text)
         IN  IF lines = <<>> THEN None
             ELSE LET action == UpperStr(Strip(lines[1]))
                  IN  IF ~ValidAction(action) THEN None
                      ELSE [kind |-> "result",
                            action |-> action,
                            analysis |-> Tail(lines),
                            confidence |-> ExtractConfidence(lines, DefaultConfidence)]

\* fault: hl.get_data or the model call raises.
analyze_opportunity(model, client, fault, content) ==
    IF fault THEN None
    ELSE IF IsDeepSeek(model) /\ ~client THEN None
    ELSE LET r == ResponseText(model, content)
         IN  IF r.raised THEN None ELSE ParseResponse(r.text)

-----------------------------------------------------------------------------
(* The monitoring cycle *)

EmptyChanges == [found |-> FALSE, btc |-> 0, interval |-> 0, start_btc |-> 0,
                 current_btc |-> 0, historical_time |-> 0]

\* _calculate_changes, for a history that is not empty.  historical_time is the
\* local of that name: the timestamp of the row the change is measured from.
calculate_changes(hist) ==
    LET current_btc == Last(hist).btc_oi
        current_time == Last(hist).timestamp
        target_time == current_time - CHECK_INTERVAL_MINUTES
        historical_data == AtOrBefore(hist, target_time)
    IN  IF historical_data # <<>>
        THEN [found |-> TRUE,
              btc |-> PctChange(current_btc, Last(historical_data).btc_oi),
              interval |-> CHECK_INTERVAL_MINUTES,
              start_btc |-> Last(historical_data).btc_oi,
              current_btc |-> current_btc,
              historical_time |-> Last(historical_data).timestamp]
        ELSE EmptyChanges

\* _get_historical_oi: the row whose total_oi it returns, or None.
get_historical_oi(hist, clock, minutes_ago) ==
    LET target_time == clock - minutes_ago
        historical_data == AtOrBefore(hist, target_time)
    IN  IF historical_data # <<>> THEN Last(historical_data) ELSE None

\* if len(self.oi_history) > 2
EnoughPoints(hist) == Len(hist) > MinPoints

UsesVoiceAlways(is_whale) == TRUE

\* _announce: "if not is_whale: return" before the speech call.
UsesVoice(is_whale) == is_whale

\* _format_announcement: "if is_whale:" before _analyze_opportunity.
WantsAnalysis(is_whale) == is_whale

\* except Exception in run_monitoring_cycle.
CycleCatches(exc) == exc = "Exception"

BreakAfterFirstPass(exc) == "break"

\* What the __main__ loop does with the way a cycle or a sleep ended:
\* "none" (it returned), "Exception" or "KeyboardInterrupt".
MainLoopDisposition(exc) ==
    IF exc = "KeyboardInterrupt" THEN "break" ELSE "continue"

\* What the API call hands to _get_current_oi: it fails (None, or an exception
\* that _get_current_oi swallows), returns an empty frame, or returns a data
\* point; the point's time lies `age` minutes before the clock.
ApiAges == {0, CHECK_INTERVAL_MINUTES, 2 * CHECK_INTERVAL_MINUTES, WindowMinutes}
ApiValues == {100, 200}
SaveFaults == {"none", "to_csv"}

ApiResults ==
    { [kind |-> k, age |-> 0, oi |-> 100, fault |-> "none"] : k \in {"none", "empty", "interrupt"} }
    \cup { [kind |-> "data", age |-> a, oi |-> v, fault |-> "none"] :
              a \in ApiAges, v \in ApiValues }
    \cup { [kind |-> "data", age |-> 0, oi |-> 200, fault |-> f] :
              f \in SaveFaults \ {"none"} }

\* The answers of the language model the cycle is run against.
AgentContents ==
    { [kind |-> "text", lines |-> << <<"b","u","y">>, <<"o","k">>,
                                     <<"C","o","n","f","i","d","e","n","c","e",":"," ","8","5","%">> >>],
      [kind |-> "text", lines |-> << <<"H","O","L","D">> >>] }

NoCycle ==
    [api |-> "not_run", save |-> "not_called", point_time |-> 0, calculated |-> FALSE,
     building |-> FALSE, changes |-> EmptyChanges, is_whale |-> FALSE,
     detect_called |-> FALSE, llm_called |-> FALSE, analysis |-> None,
     printed |-> FALSE, spoken |-> FALSE, error |-> "none"]

\* _get_current_oi: the history it leaves and what it returns.
get_current_oi(hist, clock, api) ==
    IF api.kind = "none" THEN [ok |-> FALSE, hist |-> hist, save |-> "not_called"]
    ELSE IF api.kind = "empty" THEN [ok |-> TRUE, hist |-> hist, save |-> "not_called"]
    ELSE [ok |-> TRUE,
          hist |-> save_oi_data(hist, clock, clock - api.age, api.oi, api.oi, api.fault),
          save |-> api.fault]

\* The end of run_monitoring_cycle: exc is the exception raised in its body.
EndCycle(hist, rec, exc) ==
    /\ oi_history' = hist
    /\ cycles' = cycles + 1
    /\ cleanup' = IF rec.save = "not_called" THEN cleanup
                  ELSE [op |-> "save", clock |-> now, ok |-> rec.save = "none"]
    /\ IF exc = "none" \/ CycleCatches(exc)
       THEN /\ cycle' = [rec EXCEPT !.error = exc]
            /\ now' = IF exc = "none" THEN now ELSE now + ErrorSleepMinutes
            /\ IF MainLoopDisposition("none") = "break"
               THEN pc' = "stopped" /\ stop_cause' = "none"
               ELSE pc' = "sleep" /\ stop_cause' = stop_cause
       ELSE /\ cycle' = [rec EXCEPT !.error = exc]
            /\ now' = now
            /\ IF MainLoopDisposition(exc) = "break"
               THEN pc' = "stopped" /\ stop_cause' = exc
               ELSE pc' = "sleep" /\ stop_cause' = stop_cause
    /\ UNCHANGED <<deepseek_client, ai_model, analysisVars, detectVars, btVars, saveVars, fractalVars>>

\* _format_announcement and _announce for a whale move.
AnnounceWhale(hist, rec) ==
    \E hl_fault \in BOOLEAN :
        IF hl_fault
        THEN EndCycle(hist, rec, "Exception")
        ELSE \E llm_fault \in BOOLEAN, content \in AgentContents, tts_fault \in BOOLEAN :
                EndCycle(hist,
                         [rec EXCEPT !.llm_called = WantsAnalysis(rec.is_whale),
                                     !.analysis =
                                        IF WantsAnalysis(rec.is_whale)
                                        THEN analyze_opportunity(ai_model, deepseek_client,
                                                                 llm_fault, content)
                                        ELSE None,
                                     !.printed = TRUE,
                                     !.spoken = UsesVoice(rec.is_whale)],
                         "none")

RunMonitoringCycle ==
    /\ pc = "cycle"
    /\ cycles < MaxCycles
    /\ \E api \in ApiResults :
        LET fetched == get_current_oi(oi_history, now, api)
            rec0 == [NoCycle EXCEPT !.api = api.kind, !.save = fetched.save,
                                    !.point_time = IF api.kind = "data"
                                                   THEN now - api.age ELSE 0]
        IN  IF api.kind = "interrupt"
            THEN EndCycle(oi_history, rec0, "KeyboardInterrupt")
            ELSE IF ~fetched.ok
            THEN EndCycle(fetched.hist, rec0, "none")
            ELSE IF ~EnoughPoints(fetched.hist)
            THEN EndCycle(fetched.hist, [rec0 EXCEPT !.building = TRUE], "none")
            ELSE LET changes == calculate_changes(fetched.hist)
                     rec1 == [rec0 EXCEPT !.calculated = TRUE, !.changes = changes]
                 IN  IF ~changes.found
                     THEN EndCycle(fetched.hist, rec1, "none")
                     ELSE LET is_whale == detect_whale_activity(
                                              BtcChangeColumn(fetched.hist), changes.btc, FALSE)
                              rec2 == [rec1 EXCEPT !.is_whale = is_whale,
                                                   !.detect_called = TRUE]
                          IN  IF is_whale
                              THEN AnnounceWhale(fetched.hist, rec2)
                              ELSE EndCycle(fetched.hist,
                                            [rec2 EXCEPT
                                               !.llm_called = WantsAnalysis(is_whale),
                                               !.printed = TRUE,
                                               !.spoken = UsesVoice(is_whale)],
                                            "none")

\* time.sleep(60 * CHECK_INTERVAL_MINUTES) returns and the loop runs on.
Sleep ==
    /\ pc = "sleep"
    /\ IF MainLoopDisposition("none") = "break"
       THEN pc' = "stopped" /\ now' = now
       ELSE pc' = "cycle" /\ now' = now + CHECK_INTERVAL_MINUTES
    /\ UNCHANGED <<oi_history, deepseek_client, ai_model, stop_cause, cycles,
                   cycle, cleanup, analysisVars, detectVars, btVars, saveVars, fractalVars>>

\* Ctrl-C during the sleep.
InterruptSleep ==
    /\ pc = "sleep"
    /\ IF MainLoopDisposition("KeyboardInterrupt") = "break"
       THEN pc' = "stopped" /\ stop_cause' = "KeyboardInterrupt"
       ELSE pc' = "cycle" /\ stop_cause' = stop_cause
    /\ UNCHANGED <<now, oi_history, deepseek_client, ai_model, cycles, cycle, cleanup,
                   analysisVars, detectVars, btVars, saveVars, fractalVars>>

\* Strategy.position with no trade open, an empty order queue, and the record
\* of a next() call before any call was made.
Flat == [side |-> "flat", size |-> 0, bracket |-> FALSE]

NoEntry == [side |-> "none", size |-> 0, sl |-> FALSE, tp |-> FALSE]

NoOrders == [close |-> FALSE, entry |-> NoEntry]

\* The bar of a call that was never made.
NoBar == [side |-> "flat", adx_ok |-> FALSE, jaw |-> "equal"]

NoCall == [found_position |-> FALSE, bars |-> 0, close_requested |-> FALSE,
           exit_rule |-> "none", partial |-> FALSE, entry |-> FALSE]

\* No Backtest runs.
BacktestIdle ==
    /\ strategy = "none"
    /\ position = Flat
    /\ orders = NoOrders
    /\ bt_phase = "idle"
    /\ last_call = NoCall
    /\ held = 0
    /\ partialed = FALSE
    /\ pos_bars = 0
    /\ trade_bars = 0
    /\ warm = FALSE
    /\ data_len = 0
    /\ entry_bar = <<>>
    /\ order_bar = 0
    /\ last_bar = NoBar
    /\ current_sl = "None"

Pending == [kind |-> "pending"]

\* No _analyze_opportunity or _detect_whale_activity call under separate study.
AnalysisIdle == a_content = None /\ a_fault = FALSE /\ a_result = Pending
DetectIdle == d_col = <<>> /\ d_change = 0 /\ d_fault = FALSE /\ d_result = Pending

\* No _save_oi_data call and no fractal computation under separate study.
SaveIdle == s_point = Pending
FractalIdle == f_series = <<>> /\ f_result = Pending

\* WhaleAgent.__init__ up to the first cycle.
Init ==
    /\ SaveIdle
    /\ FractalIdle
    /\ BacktestIdle
    /\ AnalysisIdle
    /\ DetectIdle
    /\ now = T0
    /\ \E file \in HistoryFiles :
          /\ oi_history = load_history(file, T0)
          /\ cleanup = [op |-> "load", clock |-> T0, ok |-> file.kind # "unreadable"]
    /\ deepseek_client \in BOOLEAN
    /\ ai_model = "deepseek-chat"
    /\ pc = "cycle"
    /\ stop_cause = "none"
    /\ cycles = 0
    /\ cycle = NoCycle

Next == RunMonitoringCycle \/ Sleep \/ InterruptSleep

Spec == Init /\ [][Next]_vars

-----------------------------------------------------------------------------
(* _analyze_opportunity on its own: the response is drawn at the start *)

MaxLines == 3

LineBuy == <<"B","U","Y">>
LineSellLoose == <<" ","s","e","l","l","\t">>
LineNothing == <<"N","O","T","H","I","N","G">>
LineHold == <<"H","O","L","D">>
LineEmpty == <<>>
LineConf85 == <<"C","o","n","f","i","d","e","n","c","e",":"," ","8","5","%">>
LineConf150 == <<"c","o","n","f","i","d","e","n","c","e"," ","1","5","0","%">>
LineConfTwo == <<"C","O","N","F","I","D","E","N","C","E"," ","7","%"," ","o","r"," ","9","0","%">>
LineConfHigh == <<"C","o","n","f","i","d","e","n","c","e",":"," ","h","i","g","h">>
LinePctOnly == <<"u","p"," ","3","0","%">>

ResponseLines == {LineBuy, LineSellLoose, LineNothing, LineHold, LineEmpty, LineConf85, LineConf150, LineConfTwo, LineConfHigh, LinePctOnly}

ResponseContents ==
    { [kind |-> "none", lines |-> <<>>], [kind |-> "empty_list", lines |-> <<>>] }
    \cup { [kind |-> "text", lines |-> ls] :
              ls \in UNION { [1..n -> ResponseLines] : n \in 1..MaxLines } }

AgentIdle ==
    /\ now = T0
    /\ oi_history = <<>>
    /\ pc = "stopped"
    /\ stop_cause = "none"
    /\ cycles = 0
    /\ cycle = NoCycle
    /\ cleanup = [op |-> "load", clock |-> T0, ok |-> TRUE]

InitAnalyze ==
    /\ SaveIdle
    /\ FractalIdle
    /\ BacktestIdle
    /\ AgentIdle
    /\ DetectIdle
    /\ ai_model \in {"deepseek-chat", "claude-3-haiku-20240307"}
    /\ deepseek_client \in BOOLEAN
    /\ a_content \in ResponseContents
    /\ a_fault \in BOOLEAN
    /\ a_result = Pending

Analyze ==
    /\ a_result = Pending
    /\ a_result' = analyze_opportunity(ai_model, deepseek_client, a_fault, a_content)
    /\ UNCHANGED <<agentVars, a_content, a_fault, detectVars, btVars, saveVars, fractalVars>>

NextAnalyze == Analyze

SpecAnalyze == InitAnalyze /\ [][NextAnalyze]_vars

-----------------------------------------------------------------------------
(* _detect_whale_activity on its own: the column is drawn at the start *)

MaxRows == 11

ChangeValues == {-100, 50}
CurrentChanges == {0, 66, 131, -131, 132}

InitDetect ==
    /\ SaveIdle
    /\ FractalIdle
    /\ BacktestIdle
    /\ AgentIdle
    /\ AnalysisIdle
    /\ ai_model = "deepseek-chat"
    /\ deepseek_client = TRUE
    /\ d_col \in UNION { [1..n -> ChangeValues] : n \in 0..MaxRows }
    /\ d_change \in CurrentChanges
    /\ d_fault \in BOOLEAN
    /\ d_result = Pending

Detect ==
    /\ d_result = Pending
    /\ d_result' = [kind |-> "returned",
                    value |-> detect_whale_activity(d_col, d_change, d_fault)]
    /\ UNCHANGED <<agentVars, analysisVars, d_col, d_change, d_fault, btVars,
                   saveVars, fractalVars>>

NextDetect == Detect

SpecDetect == InitDetect /\ [][NextDetect]_vars

-----------------------------------------------------------------------------
(* The backtest: a broker that fills orders between next() calls *)

MaxSize == 3
MaxHeld == 25

Strategies == {"SynergisticOscillator", "ConfluentHarmonics", "KalmanResonance"}

\* Backtest(..., exclusive_orders=True): these three strategies and
\* QuadrupleHarmonic run with it, FractalCascade runs without.
exclusive_orders(strat) == strat \in Strategies \cup {"QuadrupleHarmonic"}

IsOpen(pos) == pos.side # "flat"

\* What one next() call has done so far.
CallStart(bars, part) ==
    [ords |-> NoOrders, partialed |-> part, pos_bars |-> bars,
     returned |-> FALSE, close_requested |-> FALSE, exit_rule |-> "none",
     partial |-> FALSE, entry |-> FALSE]

\* self.position.close(): one closing order per open trade, filled on the next
\* bar.  The position itself stays as it is until then.
PositionClose(ords, pos) == [ords EXCEPT !.close = @ \/ IsOpen(pos)]

\* self.buy(...) / self.sell(...): with exclusive orders the new order replaces
\* the waiting ones and closing orders are queued for all open trades.
NewOrder(ords, pos, strat, side, size, sl, tp) ==
    [close |-> ords.close \/ (exclusive_orders(strat) /\ IsOpen(pos)),
     entry |-> [side |-> side, size |-> size, sl |-> sl, tp |-> tp]]

Direction(side) == IF side = "buy" THEN "long" ELSE "short"

\* A market order that is filled: opposite trades are reduced first, what is
\* left opens a new trade with the order's stop-loss and take-profit attached.
Fill(pos, e) ==
    IF pos.side = "flat"
      THEN [side |-> Direction(e.side), size |-> e.size, bracket |-> e.sl \/ e.tp]
    ELSE IF pos.side = Direction(e.side)
      THEN [pos EXCEPT !.size = @ + e.size, !.bracket = @ \/ e.sl \/ e.tp]
    ELSE IF e.size > pos.size
      THEN [side |-> Direction(e.side), size |-> e.size - pos.size,
            bracket |-> e.sl \/ e.tp]
    ELSE IF e.size = pos.size THEN Flat
    ELSE [pos EXCEPT !.size = @ - e.size]

\* The broker processes the next bar: closing orders first, then the market
\* order (cancelled when the margin does not cover it), then the stop-loss or
\* take-profit of the open trade, which the bar may or may not hit.
Broker ==
    /\ bt_phase = "broker"
    /\ \E margin_ok \in BOOLEAN, bracket_hit \in BOOLEAN :
          LET closed == IF orders.close THEN Flat ELSE position
              filled == IF orders.entry.side # "none" /\ margin_ok
                          THEN Fill(closed, orders.entry)
                          ELSE closed
          IN  position' = IF filled.bracket /\ bracket_hit THEN Flat ELSE filled
    /\ orders' = NoOrders
    /\ bt_phase' = "strategy"
    /\ UNCHANGED <<strategy, last_call, held, partialed, pos_bars, trade_bars, warm>>
    /\ UNCHANGED <<data_len, entry_bar, order_bar, last_bar, current_sl>>
    /\ UNCHANGED <<agentVars, analysisVars, detectVars, saveVars, fractalVars>>

\* The record of a finished next() call.
CallRecord(pos, bars, st) ==
    [found_position |-> IsOpen(pos), bars |-> bars,
     close_requested |-> st.close_requested, exit_rule |-> st.exit_rule,
     partial |-> st.partial, entry |-> st.entry]

Held(pos, n) == IF IsOpen(pos) THEN Min({n + 1, MaxHeld}) ELSE 0

-----------------------------------------------------------------------------
(* SynergisticOscillator.next *)

TimeExitBars == 10
StochLow == 20
StochHigh == 80

StochLevels == {10, 15, 85, 90}
Relations == {"below", "equal", "above"}
VolLevels == {-1, 0, 1}

\* int(round(size / 2)): Python rounds a half to the even neighbour.
HalfSize(size) ==
    IF size % 2 = 0 THEN size \div 2
    ELSE IF (size \div 2) % 2 = 0 THEN size \div 2 ELSE (size \div 2) + 1

\* pos_bars after the count at the top of next().
SynCountBar(pos, bars) ==
    IF IsOpen(pos) THEN (IF bars = 0 THEN 1 ELSE bars + 1) ELSE bars

SynTimeExitLate(bars) == bars > TimeExitBars

SynTimeExit(bars) == bars >= TimeExitBars

SynEntryAllowed(pos) == ~IsOpen(pos)

\* An exit rule fired: close the position, reset the bookkeeping, return.
SynClose(st, pos, rule) ==
    [st EXCEPT !.ords = PositionClose(st.ords, pos), !.close_requested = TRUE,
               !.exit_rule = rule, !.partialed = FALSE, !.pos_bars = 0,
               !.returned = TRUE]

\* Partial profit: an order for half the size against the position.
SynPartial(st, pos, side) ==
    IF HalfSize(pos.size) > 0
      THEN [st EXCEPT !.ords = NewOrder(st.ords, pos, "SynergisticOscillator",
                                       side, HalfSize(pos.size), FALSE, FALSE),
                      !.partialed = TRUE, !.partial = TRUE, !.returned = TRUE]
      ELSE [st EXCEPT !.returned = TRUE]

CrossUp(bar) == bar.k > bar.d /\ bar.prev \in {"below", "equal"}
CrossDown(bar) == bar.k < bar.d /\ bar.prev \in {"above", "equal"}

\* The block under "Exit conditions first".
SynExits(st, pos, bar) ==
    IF ~IsOpen(pos) THEN st
    ELSE IF SynTimeExit(st.pos_bars) THEN SynClose(st, pos, "time")
    ELSE IF pos.side = "long" THEN
        IF bar.close = "below" THEN SynClose(st, pos, "sma")
        ELSE IF CrossDown(bar) THEN SynClose(st, pos, "cross")
        ELSE IF ~st.partialed /\ bar.k >= StochHigh THEN SynPartial(st, pos, "sell")
        ELSE st
    ELSE
        IF bar.close = "above" THEN SynClose(st, pos, "sma")
        ELSE IF CrossUp(bar) THEN SynClose(st, pos, "cross")
        ELSE IF ~st.partialed /\ bar.k <= StochLow THEN SynPartial(st, pos, "buy")
        ELSE st

SynEnter(st, pos, side, size) ==
    IF size > 0
      THEN [st EXCEPT !.ords = NewOrder(st.ords, pos, "SynergisticOscillator",
                                       side, size, TRUE, FALSE),
                      !.entry = TRUE, !.partialed = FALSE, !.pos_bars = 0]
      ELSE st

SynLongSignal(bar, vol) ==
    /\ CrossUp(bar)
    /\ bar.k < StochLow /\ bar.d < StochLow
    /\ bar.close = "above"
    /\ (vol.osc > 0 \/ vol.osc > vol.prev)

SynShortSignal(bar, vol) ==
    /\ CrossDown(bar)
    /\ bar.k > StochHigh /\ bar.d > StochHigh
    /\ bar.close = "below"
    /\ (vol.osc < 0 \/ vol.osc < vol.prev)

\* The block under "Entry conditions only if no position".
SynEntries(st, pos, bar, vol, size) ==
    LET long == IF SynLongSignal(bar, vol) THEN SynEnter(st, pos, "buy", size) ELSE st
    IN  IF SynShortSignal(bar, vol) THEN SynEnter(long, pos, "sell", size) ELSE long

SynFinish(st, bars) ==
    /\ orders' = st.ords
    /\ partialed' = st.partialed
    /\ pos_bars' = st.pos_bars
    /\ last_call' = CallRecord(position, bars, st)
    /\ held' = Held(position, held)
    /\ bt_phase' = "broker"
    /\ UNCHANGED <<strategy, position, trade_bars, warm>>
    /\ UNCHANGED <<data_len, entry_bar, order_bar, last_bar, current_sl>>
    /\ UNCHANGED <<agentVars, analysisVars, detectVars, saveVars, fractalVars>>

SynergisticOscillatorNext ==
    /\ bt_phase = "strategy"
    /\ strategy = "SynergisticOscillator"
    /\ \E k \in StochLevels, d \in StochLevels, prev \in Relations, close \in Relations :
          LET bar == [k |-> k, d |-> d, prev |-> prev, close |-> close]
              bars == SynCountBar(position, pos_bars)
              exits == SynExits(CallStart(bars, partialed), position, bar)
          IN  IF exits.returned \/ ~SynEntryAllowed(position)
                THEN SynFinish(exits, bars)
                ELSE \E osc \in VolLevels, vprev \in VolLevels, size \in 0..MaxSize :
                        SynFinish(SynEntries(exits, position, bar,
                                             [osc |-> osc, prev |-> vprev], size), bars)

-----------------------------------------------------------------------------
(* ConfluentHarmonics.next *)

adx_threshold == 20
early_adx_exit == 15

AdxLevels == {10, 18, 30}
Setups == {"none", "long", "short"}

\* A fractional size: the broker turns it into whole units when it fills.
UnitSize == 1

AnyPosition(pos) == TRUE

ConfEntryAllowed(pos) == ~IsOpen(pos)

\* The block under "Early exits for weakening trend": it does not return.
ConfExits(st, pos, adx_val) ==
    IF IsOpen(pos) /\ adx_val < early_adx_exit
      THEN [st EXCEPT !.ords = PositionClose(st.ords, pos),
                      !.close_requested = TRUE, !.exit_rule = "adx"]
      ELSE st

ConfEnter(st, pos, side) ==
    [st EXCEPT !.ords = NewOrder(st.ords, pos, "ConfluentHarmonics", side,
                                 UnitSize, TRUE, TRUE),
               !.entry = TRUE]

\* The block under "Entry logic only if no position".
ConfEntries(st, pos, adx_val, setup) ==
    IF ~ConfEntryAllowed(pos) THEN st
    ELSE IF setup = "long" /\ adx_val > adx_threshold THEN ConfEnter(st, pos, "buy")
    ELSE IF setup = "short" /\ adx_val > adx_threshold THEN ConfEnter(st, pos, "sell")
    ELSE st

ConfluentHarmonicsNext ==
    /\ bt_phase = "strategy"
    /\ strategy = "ConfluentHarmonics"
    /\ \E adx_val \in AdxLevels, setup \in Setups :
          LET exits == ConfExits(CallStart(0, FALSE), position, adx_val)
              st == ConfEntries(exits, position, adx_val, setup)
          IN  /\ orders' = st.ords
              /\ last_call' = CallRecord(position, 0, st)
    /\ held' = Held(position, held)
    /\ bt_phase' = "broker"
    /\ UNCHANGED <<strategy, position, partialed, pos_bars, trade_bars, warm>>
    /\ UNCHANGED <<data_len, entry_bar, order_bar, last_bar, current_sl>>
    /\ UNCHANGED <<agentVars, analysisVars, detectVars, saveVars, fractalVars>>

-----------------------------------------------------------------------------
(* KalmanResonance.next *)

max_bars_in_trade == 20

KalmanTimeExit(bars) == bars > max_bars_in_trade

KalmanClose(st, pos, rule) ==
    [st EXCEPT !.ords = PositionClose(st.ords, pos), !.close_requested = TRUE,
               !.exit_rule = rule, !.returned = TRUE]

\* The block under "if self.position": every path through it returns.
KalmanExits(st, pos, bars, tp_hit, trail_hit) ==
    IF ~IsOpen(pos) THEN st
    ELSE IF tp_hit THEN KalmanClose(st, pos, "tp")
    ELSE IF trail_hit THEN KalmanClose(st, pos, "trail")
    ELSE IF KalmanTimeExit(bars) THEN KalmanClose(st, pos, "time")
    ELSE [st EXCEPT !.returned = TRUE]

KalmanEnter(st, pos, side, stop_ok) ==
    IF stop_ok
      THEN [st EXCEPT !.ords = NewOrder(st.ords, pos, "KalmanResonance", side,
                                       UnitSize, TRUE, FALSE),
                      !.entry = TRUE]
      ELSE st

\* The long entry block, then the short entry block.
KalmanEntries(st, pos, ranging, setup, stop_ok) ==
    LET long == IF ranging /\ setup = "long"
                  THEN KalmanEnter(st, pos, "buy", stop_ok) ELSE st
    IN  IF ranging /\ setup = "short"
          THEN KalmanEnter(long, pos, "sell", stop_ok) ELSE long

KalmanFinish(st, bars) ==
    /\ orders' = st.ords
    /\ trade_bars' = bars
    /\ last_call' = CallRecord(position, bars, st)

KalmanResonanceNext ==
    /\ bt_phase = "strategy"
    /\ strategy = "KalmanResonance"
    /\ \E ready \in BOOLEAN :
          /\ warm' = (warm \/ ready)
          /\ IF ~warm /\ ~ready
               THEN KalmanFinish(CallStart(0, FALSE), trade_bars)
               ELSE IF IsOpen(position)
                 THEN \E tp_hit \in BOOLEAN, trail_hit \in BOOLEAN :
                         KalmanFinish(KalmanExits(CallStart(0, FALSE), position,
                                                  trade_bars + 1, tp_hit, trail_hit),
                                      trade_bars + 1)
                 ELSE \E ranging \in BOOLEAN, setup \in Setups, stop_ok \in BOOLEAN :
                         KalmanFinish(KalmanEntries(CallStart(0, FALSE), position,
                                                    ranging, setup, stop_ok), 0)
    /\ held' = Held(position, held)
    /\ bt_phase' = "broker"
    /\ UNCHANGED <<strategy, position, partialed, pos_bars>>
    /\ UNCHANGED <<data_len, entry_bar, order_bar, last_bar, current_sl>>
    /\ UNCHANGED <<agentVars, analysisVars, detectVars, saveVars, fractalVars>>

-----------------------------------------------------------------------------
(* Backtest.run: the broker and next() take turns, bar after bar *)

InitBacktest ==
    /\ SaveIdle
    /\ FractalIdle
    /\ AgentIdle
    /\ AnalysisIdle
    /\ DetectIdle
    /\ ai_model = "deepseek-chat"
    /\ deepseek_client = TRUE
    /\ strategy \in Strategies
    /\ position = Flat
    /\ orders = NoOrders
    /\ bt_phase = "broker"
    /\ last_call = NoCall
    /\ held = 0
    /\ partialed = FALSE
    /\ pos_bars = 0
    /\ trade_bars = 0
    /\ warm = FALSE
    /\ data_len = 0
    /\ entry_bar = <<>>
    /\ order_bar = 0
    /\ last_bar = NoBar
    /\ current_sl = "None"

NextBacktest ==
    \/ Broker
    \/ SynergisticOscillatorNext
    \/ ConfluentHarmonicsNext
    \/ KalmanResonanceNext

SpecBacktest == InitBacktest /\ [][NextBacktest]_vars

-----------------------------------------------------------------------------
(* QuadrupleHarmonic.next *)

FirstLen == 198
MaxLen == 246

MinBars == 200
QuadTimeBars == 20

\* The truth value of self.entry_bar: None and 0 are false.
Truthy(eb) == eb # <<>> /\ eb[1] # 0

QuadTimeExitLate(len, eb) == Truthy(eb) /\ len - eb[1] > QuadTimeBars + 1

QuadTimeExit(len, eb) == Truthy(eb) /\ len - eb[1] > QuadTimeBars

QuadClose(st, pos, rule) ==
    [st EXCEPT !.ords = PositionClose(st.ords, pos), !.close_requested = TRUE,
               !.exit_rule = rule]

\* The block under "if self.position": the EMA exit, then the time exit; both
\* may fire in one call.  The block always returns.
QuadExits(st, pos, below_ema, len, eb) ==
    LET ema == IF below_ema THEN QuadClose(st, pos, "ema") ELSE st
        time == IF QuadTimeExit(len, eb) THEN QuadClose(ema, pos, "time") ELSE ema
    IN  [time EXCEPT !.returned = TRUE]

\* The entry: the pattern and its filters hold, the stop distance is positive.
QuadEntries(st, pos, len, signal, stop_ok) ==
    IF IsOpen(pos) \/ len < MinBars THEN st
    ELSE IF signal /\ stop_ok
      THEN [st EXCEPT !.ords = NewOrder(st.ords, pos, "QuadrupleHarmonic", "buy",
                                       UnitSize, TRUE, TRUE),
                      !.entry = TRUE]
    ELSE st

\* The bar at which the order of the position now open was placed: the bar of
\* the previous call when that call found no position.
OrderBar(pos, call, prev_len, prev_bar) ==
    IF ~IsOpen(pos) THEN 0
    ELSE IF call.found_position THEN prev_bar
    ELSE prev_len

\* The trailing block reads self.position.sl, an attribute Position may not
\* have: when the trigger is hit the call either raises, which ends the run,
\* or goes on.
QuadrupleHarmonicNext ==
    /\ bt_phase = "strategy"
    /\ strategy = "QuadrupleHarmonic"
    /\ data_len < MaxLen
    /\ data_len' = data_len + 1
    /\ order_bar' = OrderBar(position, last_call, data_len, order_bar)
    /\ \E below_ema \in BOOLEAN, trail_hit \in BOOLEAN, raises \in BOOLEAN,
          signal \in BOOLEAN, stop_ok \in BOOLEAN :
          LET len == data_len + 1
              start == CallStart(0, FALSE)
              st == IF IsOpen(position)
                      THEN QuadExits(start, position, below_ema, len, entry_bar)
                      ELSE QuadEntries(start, position, len, signal, stop_ok)
          IN  /\ orders' = st.ords
              /\ entry_bar' = IF st.entry THEN <<len>> ELSE entry_bar
              /\ last_call' = CallRecord(position, len - order_bar', st)
              /\ bt_phase' = IF IsOpen(position) /\ trail_hit /\ raises
                               THEN "raised" ELSE "broker"
    /\ held' = Held(position, held)
    /\ UNCHANGED <<strategy, position, partialed, pos_bars, trade_bars, warm, last_bar,
                   current_sl>>
    /\ UNCHANGED <<agentVars, analysisVars, detectVars, saveVars, fractalVars>>

InitQuad ==
    /\ AgentIdle
    /\ AnalysisIdle
    /\ DetectIdle
    /\ SaveIdle
    /\ FractalIdle
    /\ ai_model = "deepseek-chat"
    /\ deepseek_client = TRUE
    /\ strategy = "QuadrupleHarmonic"
    /\ position = Flat
    /\ orders = NoOrders
    /\ bt_phase = "broker"
    /\ last_call = NoCall
    /\ held = 0
    /\ partialed = FALSE
    /\ pos_bars = 0
    /\ trade_bars = 0
    /\ warm = FALSE
    /\ data_len = FirstLen
    /\ entry_bar = <<>>
    /\ order_bar = 0
    /\ last_bar = NoBar
    /\ current_sl = "None"

NextQuad == Broker \/ QuadrupleHarmonicNext

SpecQuad == InitQuad /\ [][NextQuad]_vars

-----------------------------------------------------------------------------
(* FractalCascade.next *)

AdxStates == {"nan", "weak", "strong"}

\* The first test of next(): the ADX is NaN or below adx_threshold.
FractalGate(adx) == adx = "nan" \/ adx = "weak"

\* A long entry needs the close above Lips > Teeth > Jaw, a short entry the
\* mirror image; the stop must lie on the right side and the size be positive.
FractalEntries(st, pos, bar) ==
    IF IsOpen(pos) THEN st
    ELSE IF bar.setup = "long" /\ bar.jaw = "above" THEN
        IF bar.sl_ok /\ bar.size > 0
          THEN [st EXCEPT !.ords = NewOrder(st.ords, pos, "FractalCascade", "buy",
                                           bar.size, TRUE, FALSE),
                          !.entry = TRUE, !.sl = "set"]
          ELSE st
    ELSE IF bar.setup = "short" /\ bar.jaw = "below" THEN
        IF bar.sl_ok /\ bar.size > 0
          THEN [st EXCEPT !.ords = NewOrder(st.ords, pos, "FractalCascade", "sell",
                                           bar.size, TRUE, FALSE),
                          !.entry = TRUE, !.sl = "set"]
          ELSE st
    ELSE st

\* The hard exit: close, forget the stop, return.
FractalHardExit(st, pos) ==
    [st EXCEPT !.ords = PositionClose(st.ords, pos), !.close_requested = TRUE,
               !.exit_rule = "jaw", !.sl = "None", !.returned = TRUE]

\* The trailing stop: close the position and buy (sell) it again with the new
\* stop.  Comparing the new stop with a current_sl of None raises.
FractalTrail(st, pos, side) ==
    IF st.sl = "None" THEN [st EXCEPT !.raised = TRUE]
    ELSE [st EXCEPT !.ords = NewOrder(PositionClose(st.ords, pos), pos,
                                      "FractalCascade", side, pos.size, TRUE, FALSE),
                    !.close_requested = TRUE, !.exit_rule = "trail",
                    !.entry = TRUE, !.sl = "set"]

\* The block under the second "if self.position".
FractalExits(st, pos, bar) ==
    IF ~IsOpen(pos) THEN st
    ELSE IF pos.side = "long" THEN
        IF bar.jaw = "below" THEN FractalHardExit(st, pos)
        ELSE IF bar.trail THEN FractalTrail(st, pos, "buy")
        ELSE st
    ELSE
        IF bar.jaw = "above" THEN FractalHardExit(st, pos)
        ELSE IF bar.trail THEN FractalTrail(st, pos, "sell")
        ELSE st

FractalStart(sl) ==
    [ords |-> NoOrders, sl |-> sl, returned |-> FALSE, raised |-> FALSE,
     close_requested |-> FALSE, exit_rule |-> "none", partial |-> FALSE,
     entry |-> FALSE]

FractalCascadeNext ==
    /\ bt_phase = "strategy"
    /\ strategy = "FractalCascade"
    /\ \E adx \in AdxStates, jaw \in Relations, setup \in Setups,
          size \in 0..MaxSize, sl_ok \in BOOLEAN, trail \in BOOLEAN :
          LET bar == [jaw |-> jaw, setup |-> setup, size |-> size, sl_ok |-> sl_ok,
                      trail |-> trail]
              start == FractalStart(current_sl)
              st == IF FractalGate(adx) THEN [start EXCEPT !.returned = TRUE]
                    ELSE FractalExits(FractalEntries(start, position, bar),
                                      position, bar)
          IN  /\ orders' = st.ords
              /\ current_sl' = st.sl
              /\ last_call' = CallRecord(position, 0, st)
              /\ last_bar' = [side |-> position.side, adx_ok |-> ~FractalGate(adx),
                              jaw |-> jaw]
              /\ bt_phase' = IF st.raised THEN "raised" ELSE "broker"
    /\ held' = Held(position, held)
    /\ UNCHANGED <<strategy, position, partialed, pos_bars, trade_bars, warm,
                   data_len, entry_bar, order_bar>>
    /\ UNCHANGED <<agentVars, analysisVars, detectVars, saveVars, fractalVars>>

InitFractal ==
    /\ AgentIdle
    /\ AnalysisIdle
    /\ DetectIdle
    /\ SaveIdle
    /\ FractalIdle
    /\ ai_model = "deepseek-chat"
    /\ deepseek_client = TRUE
    /\ strategy = "FractalCascade"
    /\ position = Flat
    /\ orders = NoOrders
    /\ bt_phase = "broker"
    /\ last_call = NoCall
    /\ held = 0
    /\ partialed = FALSE
    /\ pos_bars = 0
    /\ trade_bars = 0
    /\ warm = FALSE
    /\ data_len = 0
    /\ entry_bar = <<>>
    /\ order_bar = 0
    /\ last_bar = NoBar
    /\ current_sl = "None"

NextFractal == Broker \/ FractalCascadeNext

SpecFractal == InitFractal /\ [][NextFractal]_vars

-----------------------------------------------------------------------------
(* _save_oi_data on its own: a few calls in a row *)

MaxSaves == 3

\* BTC and ETH open interest of a fetched point; the caller passes their sum
\* as total_oi.  All percentages between these points are whole numbers.
SavePoints == { <<100, 200>>, <<200, 100>>, <<200, 400>> }

InitSave ==
    /\ BacktestIdle
    /\ AnalysisIdle
    /\ DetectIdle
    /\ FractalIdle
    /\ SaveIdle
    /\ now = T0
    /\ \E file \in HistoryFiles : oi_history = load_history(file, T0)
    /\ deepseek_client = TRUE
    /\ ai_model = "deepseek-chat"
    /\ pc = "stopped"
    /\ stop_cause = "none"
    /\ cycles = 0
    /\ cycle = NoCycle
    /\ cleanup = [op |-> "load", clock |-> T0, ok |-> TRUE]

SaveOiData ==
    /\ cycles < MaxSaves
    /\ \E point \in SavePoints, age \in ApiAges, fault \in SaveFaults :
          /\ s_point' = [kind |-> "saved", before |-> oi_history, clock |-> now,
                         timestamp |-> now - age, btc_oi |-> point[1],
                         eth_oi |-> point[2], total_oi |-> point[1] + point[2]]
          /\ oi_history' = save_oi_data(oi_history, now, now - age, point[1],
                                        point[2], fault)
          /\ cleanup' = [op |-> "save", clock |-> now, ok |-> fault = "none"]
    /\ now' = now + CHECK_INTERVAL_MINUTES
    /\ cycles' = cycles + 1
    /\ UNCHANGED <<deepseek_client, ai_model, pc, stop_cause, cycle>>
    /\ UNCHANGED <<analysisVars, detectVars, btVars, fractalVars>>

NextSave == SaveOiData

SpecSave == InitSave /\ [][NextSave]_vars

-----------------------------------------------------------------------------
(* compute_up_fractals, compute_down_fractals, compute_ffill_fractal *)

MaxSeries == 6
MaxPrice == 3

\* np.nan; prices are 1..MaxPrice.  Every comparison with NaN is false.
NaN == 0

IsNaN(x) == x = NaN

GreaterOrEqual(a, b) == ~IsNaN(a) /\ ~IsNaN(b) /\ a >= b

Greater(a, b) == ~IsNaN(a) /\ ~IsNaN(b) /\ a > b

Less(a, b) == ~IsNaN(a) /\ ~IsNaN(b) /\ a < b

\* range(2, n - 2), counted from 1.
FractalRange(n) == 3..(n - 2)

compute_up_fractals(high) ==
    [i \in 1..Len(high) |->
        IF /\ i \in FractalRange(Len(high))
           /\ Greater(high[i], high[i - 1]) /\ Greater(high[i], high[i - 2])
           /\ Greater(high[i], high[i + 1]) /\ Greater(high[i], high[i + 2])
          THEN high[i] ELSE NaN]

compute_down_fractals(low) ==
    [i \in 1..Len(low) |->
        IF /\ i \in FractalRange(Len(low))
           /\ Less(low[i], low[i - 1]) /\ Less(low[i], low[i - 2])
           /\ Less(low[i], low[i + 1]) /\ Less(low[i], low[i + 2])
          THEN low[i] ELSE NaN]

\* The loop of compute_ffill_fractal from index i on, prev carried along.
RECURSIVE FfillFrom(_, _, _)
FfillFrom(fractal, i, prev) ==
    IF i > Len(fractal) THEN <<>>
    ELSE LET p == IF ~IsNaN(fractal[i]) THEN fractal[i] ELSE prev
         IN  <<p>> \o FfillFrom(fractal, i + 1, p)

compute_ffill_fractal(fractal) == FfillFrom(fractal, 1, NaN)

InitFractals ==
    /\ AgentIdle
    /\ AnalysisIdle
    /\ DetectIdle
    /\ SaveIdle
    /\ BacktestIdle
    /\ ai_model = "deepseek-chat"
    /\ deepseek_client = TRUE
    /\ f_series \in UNION { [1..n -> {NaN} \cup (1..MaxPrice)] : n \in 0..MaxSeries }
    /\ f_result = Pending

\* FractalCascade.init applies the functions to the price arrays and the
\* forward fill to the fractal arrays; here the fill is also applied to the
\* series itself and to its own result.
ComputeFractals ==
    /\ f_result = Pending
    /\ f_result' =
          [kind |-> "returned",
           up |-> compute_up_fractals(f_series),
           down |-> compute_down_fractals(f_series),
           ffill_up |-> compute_ffill_fractal(compute_up_fractals(f_series)),
           filled |-> compute_ffill_fractal(f_series),
           refilled |-> compute_ffill_fractal(compute_ffill_fractal(f_series))]
    /\ UNCHANGED <<agentVars, analysisVars, detectVars, btVars, saveVars, f_series>>

NextFractals == ComputeFractals

SpecFractals == InitFractals /\ [][NextFractals]_vars

-----------------------------------------------------------------------------
(* Properties of the agent *)

Timestamps(hist) == { hist[i].timestamp : i \in 1..Len(hist) }

Max(S) == CHOOSE x \in S : \A y \in S : y <= x

\* C1: after a load_history or _save_oi_data call that completed without an
\* exception, every row of the in-memory history is strictly newer than 24
\* hours before the clock of that call; a fetched point that is 24 hours old
\* or older is not among the rows.
C1_RollingWindow ==
    cleanup.ok =>
        /\ \A t \in Timestamps(oi_history) : t > cleanup.clock - WindowMinutes
        /\ (cycle.save = "none" /\ cycle.point_time <= cleanup.clock - WindowMinutes)
              => cycle.point_time \notin Timestamps(oi_history)

\* A save that completed dropped the point it was given, which was exactly 24
\* hours old, and kept newer rows.
C1_Witness ==
    /\ cycle.save = "none"
    /\ cleanup.ok
    /\ cleanup.op = "save"
    /\ cycle.point_time = cleanup.clock - WindowMinutes
    /\ oi_history # <<>>

\* C2: the polling loop leaves a monitoring cycle for the sleep and the sleep
\* for the next cycle whatever the cycle raised or swallowed; it stops only
\* on a KeyboardInterrupt.
C2_LoopSurvivesErrors ==
    [][ /\ (pc # "stopped" /\ pc' = "stopped") => stop_cause' = "KeyboardInterrupt"
        /\ (pc = "cycle" /\ cycle'.error # "KeyboardInterrupt") => pc' = "sleep"
        /\ (pc = "sleep" /\ stop_cause' # "KeyboardInterrupt") => pc' = "cycle"
      ]_vars

\* The loop is back at its head after a cycle whose body raised.
C2_Witness ==
    /\ pc = "cycle"
    /\ cycle.error = "Exception"
    /\ stop_cause = "none"

\* C3: the language model and the speech synthesis are invoked only in a cycle
\* whose _detect_whale_activity returned true; a non-whale message is printed
\* and nothing else.
C3_WhaleOnlyAnalysisAndVoice ==
    /\ cycle.llm_called => (cycle.detect_called /\ cycle.is_whale)
    /\ cycle.spoken => (cycle.detect_called /\ cycle.is_whale)
    /\ (cycle.printed /\ ~cycle.is_whale) => (~cycle.llm_called /\ ~cycle.spoken)

\* A whale move was analysed and spoken.
C3_Witness ==
    /\ cycle.is_whale
    /\ cycle.llm_called
    /\ cycle.spoken
    /\ cycle.analysis # None

\* C6: a cycle that fetched calculates changes exactly when the history holds
\* at least 2 data points, and otherwise reports that it is building history.
C6_CalculatesFromTwoPoints ==
    (cycle.api \in {"data", "empty"}) =>
        /\ cycle.calculated <=> Len(oi_history) >= MinPoints
        /\ cycle.building <=> Len(oi_history) < MinPoints

\* C8: the reference row of a change calculation has the greatest timestamp
\* among the rows at or before the target time; with no such row no change is
\* computed and nothing is announced.
C8_ClosestReference ==
    /\ cycle.calculated =>
          LET target == Last(oi_history).timestamp - CHECK_INTERVAL_MINUTES
              before == { t \in Timestamps(oi_history) : t <= target }
          IN  IF before = {}
              THEN ~cycle.changes.found /\ ~cycle.printed
              ELSE cycle.changes.found /\ cycle.changes.historical_time = Max(before)
    /\ LET target == now - LookbackMinutes
           before == { t \in Timestamps(oi_history) : t <= target }
           row == get_historical_oi(oi_history, now, LookbackMinutes)
       IN  IF before = {} THEN row = None
           ELSE row # None /\ row.timestamp = Max(before)

-----------------------------------------------------------------------------
(* Properties of _analyze_opportunity *)

\* The first line of the response that is not blank.
FirstNonBlank(ls) == ls[Min({ i \in 1..Len(ls) : Strip(ls[i]) # <<>> })]

AllBlank(ls) == \A i \in 1..Len(ls) : Strip(ls[i]) = <<>>

\* C4: a result that is not None has the action BUY, SELL or NOTHING; a failed
\* call, a DeepSeek model without its client, an empty response and a response
\* whose first non-empty line, trimmed and upper-cased, is anything else all
\* yield None.
C4_ActionOrNone ==
    a_result # Pending =>
        /\ a_result # None =>
              /\ a_result.kind = "result"
              /\ a_result.action \in { <<"B","U","Y">>, <<"S","E","L","L">>,
                                       <<"N","O","T","H","I","N","G">> }
        /\ ( \/ a_fault
             \/ (ai_model = "deepseek-chat" /\ ~deepseek_client)
             \/ a_content.kind # "text"
             \/ AllBlank(a_content.lines)
             \/ UpperStr(Strip(FirstNonBlank(a_content.lines)))
                   \notin { <<"B","U","Y">>, <<"S","E","L","L">>,
                            <<"N","O","T","H","I","N","G">> }
           ) => a_result = None

\* A response whose first line had to be trimmed and upper-cased was accepted.
C4_Witness ==
    /\ a_result # Pending
    /\ a_result # None
    /\ a_result.action = <<"S","E","L","L">>
    /\ a_content.lines[1] = LineSellLoose

\* C5: the confidence of every result is an integer from 0 to 100, and it is
\* the default 50 when no line that contains the word confidence carries
\* digits followed by a percent sign.
C5_ConfidenceInRange ==
    (a_result # Pending /\ a_result # None) =>
        /\ a_result.confidence \in 0..100
        /\ (\A i \in 1..Len(a_content.lines) :
                ~( /\ Contains(LowerStr(a_content.lines[i]), ConfidenceWord)
                   /\ PctStarts(a_content.lines[i]) # {} ))
              => a_result.confidence = DefaultConfidence

-----------------------------------------------------------------------------
(* Properties of _detect_whale_activity *)

RECURSIVE SumOver(_, _)
SumOver(S, col) ==
    IF S = {} THEN 0
    ELSE LET j == CHOOSE x \in S : TRUE
         IN  (IF col[j] < 0 THEN -col[j] ELSE col[j]) + SumOver(S \ {j}, col)

\* C7: _detect_whale_activity returns true exactly when the history has at
\* least 10 rows and |current change| is strictly greater than 1.31 times the
\* mean of the 10-row rolling means of |btc_change_pct|; with fewer rows, or
\* on an internal error, it returns false.
C7_WhaleIffAboveThreshold ==
    d_result # Pending =>
        LET n == Len(d_col)
            windows == 1..(n - 9)
            \* the sum over the windows of the window's sum
            total == SumSeq([w \in windows |-> SumOver(w..(w + 9), d_col)])
            magnitude == IF d_change < 0 THEN -d_change ELSE d_change
        IN  d_result.value = ( /\ ~d_fault
                               /\ n >= 10
                               /\ magnitude * 10 * (n - 9) * 100 > 131 * total )

\* A change just above the threshold of a history with two full windows.
C7_Witness ==
    /\ d_result # Pending
    /\ d_result.value
    /\ Len(d_col) > 10
    /\ \E i \in 1..Len(d_col) : d_col[i] < 0

-----------------------------------------------------------------------------
(* Properties of the strategies *)

\* C9: in SynergisticOscillator, ConfluentHarmonics and KalmanResonance a
\* next() call that found a position open at its start issued no entry order
\* carrying a stop-loss, and left none with the broker, also when that same
\* call requested the position's close.
C9_EntryOnlyWhenFlat ==
    last_call.found_position =>
        /\ ~last_call.entry
        /\ bt_phase = "broker" => ~orders.entry.sl

\* ConfluentHarmonics requested the close of the position it found and went on
\* to the entry block, which left no order.
C9_Witness ==
    /\ strategy = "ConfluentHarmonics"
    /\ bt_phase = "broker"
    /\ last_call.found_position
    /\ last_call.close_requested
    /\ orders = [close |-> TRUE, entry |-> NoEntry]

\* C10: in SynergisticOscillator no position is seen open in more than 10
\* consecutive next() calls; the call in which pos_bars reaches 10 closes the
\* position by the time rule and by no other rule, places no other order,
\* and resets pos_bars and partialed; the next call finds no position.
C10_TimeExitAfterTenBars ==
    strategy = "SynergisticOscillator" =>
        /\ held <= TimeExitBars
        /\ (last_call.found_position /\ last_call.bars >= TimeExitBars) =>
              /\ last_call.exit_rule = "time"
              /\ last_call.close_requested
              /\ ~last_call.partial
              /\ ~last_call.entry
              /\ pos_bars = 0
              /\ partialed = FALSE
              /\ bt_phase = "broker" => orders = [close |-> TRUE, entry |-> NoEntry]
              /\ bt_phase = "strategy" => position = Flat

\* The tenth consecutive call closed by the time rule a short position without
\* stop-loss, which only the partial-profit order of a long position opens.
C10_Witness ==
    /\ strategy = "SynergisticOscillator"
    /\ bt_phase = "broker"
    /\ held = TimeExitBars
    /\ last_call.bars = TimeExitBars
    /\ last_call.exit_rule = "time"
    /\ position.side = "short"
    /\ ~position.bracket

\* C11: in QuadrupleHarmonic, at every next() call that found a position
\* open, entry_bar is the bar at which the order of that position was placed;
\* the call requested the close by the time rule exactly when more than 20
\* bars had elapsed since that bar, and no call found a position open later
\* than the first such bar.
C11_TimeExitAfterTwentyBars ==
    (strategy = "QuadrupleHarmonic" /\ last_call.found_position) =>
        /\ entry_bar = <<order_bar>>
        /\ last_call.bars = data_len - order_bar
        /\ (last_call.exit_rule = "time") <=> (last_call.bars > QuadTimeBars)
        /\ last_call.exit_rule = "time" => last_call.close_requested
        /\ last_call.bars <= QuadTimeBars + 1

\* The time rule closed, 21 bars after its order, a position whose order was
\* placed later than the first bar that allows an entry.
C11_Witness ==
    /\ strategy = "QuadrupleHarmonic"
    /\ bt_phase = "broker"
    /\ last_call.found_position
    /\ last_call.exit_rule = "time"
    /\ orders.close
    /\ last_call.bars = QuadTimeBars + 1
    /\ order_bar > MinBars

\* C12: in KalmanResonance trade_bars is the number of consecutive next()
\* calls that found the current position open and is 0 after every call that
\* found none, a call that counted more than max_bars_in_trade requested the
\* close, and no position is found open in more than max_bars_in_trade (20)
\* consecutive calls.
C12_AtMostTwentyBars ==
    strategy = "KalmanResonance" =>
        /\ last_call.found_position => trade_bars = held
        /\ ~last_call.found_position => trade_bars = 0
        /\ (last_call.found_position /\ trade_bars > max_bars_in_trade)
              => last_call.close_requested
        /\ held <= max_bars_in_trade

\* C13: in FractalCascade every next() call that found a long position open
\* on a bar closing below the Jaw, or a short position open on a bar closing
\* above it, requested the close of the position, whatever the other
\* indicators of the bar were.
C13_JawHardExit ==
    (/\ strategy = "FractalCascade"
     /\ \/ last_bar.side = "long" /\ last_bar.jaw = "below"
        \/ last_bar.side = "short" /\ last_bar.jaw = "above")
        => last_call.close_requested

-----------------------------------------------------------------------------
(* Properties of _save_oi_data *)

\* change is (new - previous) / previous * 100.
IsPctOf(change, new, previous) == change * previous = (new - previous) * 100

\* C14: the row a _save_oi_data call appended (and the 24-hour clean-up kept)
\* carries the call's timestamp and values; its three change percentages are
\* 0 when the history was empty at the call, and otherwise (new - previous) /
\* previous * 100 with previous the last row of the history at the call.
C14_ChangeAgainstLastRow ==
    (s_point.kind = "saved" /\ s_point.timestamp > s_point.clock - WindowMinutes) =>
        LET before == s_point.before
            row == oi_history[Len(oi_history)]
        IN  /\ oi_history # <<>>
            /\ row.timestamp = s_point.timestamp
            /\ row.btc_oi = s_point.btc_oi
            /\ row.eth_oi = s_point.eth_oi
            /\ row.total_oi = s_point.total_oi
            /\ IF before = <<>>
                 THEN /\ row.btc_change_pct = 0
                      /\ row.eth_change_pct = 0
                      /\ row.total_change_pct = 0
                 ELSE LET previous == before[Len(before)]
                      IN  /\ IsPctOf(row.btc_change_pct, row.btc_oi, previous.btc_oi)
                          /\ IsPctOf(row.eth_change_pct, row.eth_oi, previous.eth_oi)
                          /\ IsPctOf(row.total_change_pct, row.total_oi,
                                     previous.total_oi)

\* A point was saved behind two rows that differ from each other, and its three
\* percentages differ from each other.
C14_Witness ==
    /\ s_point.kind = "saved"
    /\ Len(s_point.before) >= 2
    /\ s_point.before[1].btc_oi # s_point.before[Len(s_point.before)].btc_oi
    /\ oi_history # <<>>
    /\ oi_history[Len(oi_history)].timestamp = s_point.timestamp
    /\ oi_history[Len(oi_history)].btc_change_pct = 100
    /\ oi_history[Len(oi_history)].eth_change_pct = -50
    /\ oi_history[Len(oi_history)].total_change_pct = 0

-----------------------------------------------------------------------------
(* Properties of the fractal functions *)

Neighbours(i) == {i - 2, i - 1, i + 1, i + 2}

\* The index of the most recent mark at or before i, 0 when there is none.
LastMark(marks, i) ==
    IF \E j \in 1..i : marks[j] # NaN
      THEN CHOOSE j \in 1..i :
              /\ marks[j] # NaN
              /\ \A k \in (j + 1)..i : marks[k] = NaN
      ELSE 0

IsFilled(filled, marks) ==
    /\ Len(filled) = Len(marks)
    /\ \A i \in 1..Len(marks) :
          filled[i] = IF LastMark(marks, i) = 0 THEN NaN
                      ELSE marks[LastMark(marks, i)]

\* C15: the up (down) fractal array has the input's length and marks index i,
\* with the input's value, exactly when i is neither among the first two nor
\* the last two indices and the value at i is strictly greater (smaller) than
\* the values at i-2, i-1, i+1 and i+2; the forward fill gives at each index
\* the most recent marked value at or before it, no value before the first
\* mark, and filling a filled array changes nothing.
C15_FractalsAndForwardFill ==
    f_result.kind = "returned" =>
        LET n == Len(f_series)
        IN  /\ Len(f_result.up) = n
            /\ Len(f_result.down) = n
            /\ \A i \in 1..n :
                  /\ f_result.up[i] # NaN <=>
                        /\ i > 2 /\ i < n - 1 /\ f_series[i] # NaN
                        /\ \A j \in Neighbours(i) :
                              f_series[j] # NaN /\ f_series[i] > f_series[j]
                  /\ f_result.up[i] # NaN => f_result.up[i] = f_series[i]
                  /\ f_result.down[i] # NaN <=>
                        /\ i > 2 /\ i < n - 1 /\ f_series[i] # NaN
                        /\ \A j \in Neighbours(i) :
                              f_series[j] # NaN /\ f_series[i] < f_series[j]
                  /\ f_result.down[i] # NaN => f_result.down[i] = f_series[i]
            /\ IsFilled(f_result.filled, f_series)
            /\ IsFilled(f_result.ffill_up, f_result.up)
            /\ f_result.refilled = f_result.filled

\* A series with an up fractal and a down fractal; the fill of its up fractals
\* has no value before the first mark and carries the mark to the last index.
C15_Witness ==
    /\ f_result.kind = "returned"
    /\ \E i \in 1..Len(f_series) : f_result.up[i] # NaN
    /\ \E i \in 1..Len(f_series) : f_result.down[i] # NaN
    /\ f_result.ffill_up[1] = NaN
    /\ f_result.up[Len(f_series)] = NaN
    /\ f_result.ffill_up[Len(f_series)] # NaN

=============================================================================
